---- MODULE Spec2Model ----
(***************************************************************************)
(* Model of the dynamic candle matrix of asciichart: DynamicMatrix         *)
(* (src/core-matrix.ts) driven through the public add operations of        *)
(* MatrixASCIIChart (src/index.ts).                                        *)
(*                                                                         *)
(* Candle sizes are non-negative integers, as in every call of the test    *)
(* suite and the README; prices are then integers and Math.ceil of a price *)
(* range is that range.  Math.round(x) is floor(x + 1/2), computed here on *)
(* the exact quotient; for canvases below 41 rows, which covers every      *)
(* session within the bounds below, the IEEE double product               *)
(* ((maxPrice - price) / priceRange) * availableHeight rounds to the same  *)
(* row.  The body glyphs U+2588 and U+2591 are written "#" and ":".        *)
(***************************************************************************)
EXTENDS Integers, Sequences, FiniteSets, TLC

VARIABLES data, width, height, minPrice, maxPrice, candles, how, before,
          called, showAxes, showLabels, rendered

vars == <<data, width, height, minPrice, maxPrice, candles, how, before,
          called, showAxes, showLabels, rendered>>

----------------------------------------------------------------------------
(* Bounds of the model *)

MaxCandles == 2
MaxBody == 3
MaxUpperWick == 1
MaxLowerWick == 2
MaxGridSide == 2
MaxRequest == 3
PriceMargin == 2

BodySizes == {0, 1, MaxBody}
UpperWicks == {0, MaxUpperWick}
LowerWicks == {0, MaxLowerWick}

----------------------------------------------------------------------------
(* Program constants *)

defaultWidth == 7
defaultHeight == 7
buffer == 1
basePrice == 100
visualSeparation == 1
firstColumn == 3
columnStride == 6
\* IEEE +Infinity of the initial minPrice (maxPrice starts at its negation):
\* a value beyond every price a bounded session reaches.
Infinity == 1000000

blank == " "
wickSymbol == "|"
bullishBody == "#"
bearishBody == ":"

Glyphs == {blank, wickSymbol, bullishBody, bearishBody}

----------------------------------------------------------------------------
(* Arithmetic helpers *)

Max(a, b) == IF a >= b THEN a ELSE b

Min(a, b) == IF a <= b THEN a ELSE b

\* Math.floor(n / 2) for an integer n >= 0
FloorHalf(n) == n \div 2

\* Math.round(num / den) for den > 0: floor(num/den + 1/2)
RoundDiv(num, den) == (2 * num + den) \div (2 * den)

----------------------------------------------------------------------------
(* The session: the fields of one DynamicMatrix *)

Session(d, w, h, lo, hi, cs) ==
    [data |-> d, width |-> w, height |-> h,
     minPrice |-> lo, maxPrice |-> hi, candles |-> cs]

this == Session(data, width, height, minPrice, maxPrice, candles)

createEmptyMatrix(w, h) ==
    [row \in 0 .. (h - 1) |-> [col \in 0 .. (w - 1) |-> blank]]

\* expandMatrix sizing the new grid to the requested extent alone
expandMatrix_Requested(self, newWidth, newHeight) ==
    IF newWidth <= self.width /\ newHeight <= self.height
    THEN self
    ELSE [self EXCEPT
            !.data = [row \in 0 .. (newHeight - 1) |->
                        [col \in 0 .. (newWidth - 1) |->
                           IF row < self.height /\ col < self.width
                           THEN self.data[row][col] ELSE blank]],
            !.width = newWidth,
            !.height = newHeight]

expandMatrix(self, newWidth, newHeight) ==
    IF newWidth <= self.width /\ newHeight <= self.height
    THEN self
    ELSE LET actualWidth == Max(self.width, newWidth)
             actualHeight == Max(self.height, newHeight)
             newMatrix == createEmptyMatrix(actualWidth, actualHeight)
             copied ==
                 [row \in 0 .. (actualHeight - 1) |->
                    [col \in 0 .. (actualWidth - 1) |->
                       IF /\ row < self.height
                          /\ col < self.width
                          /\ row \in DOMAIN self.data
                          /\ col \in DOMAIN self.data[row]
                       THEN self.data[row][col]
                       ELSE newMatrix[row][col]]]
         IN [self EXCEPT !.data = copied,
                         !.width = actualWidth,
                         !.height = actualHeight]

\* priceToRow without the final clamp
priceToRow_Unclamped(self, price) ==
    IF Len(self.candles) = 0 THEN 0
    ELSE LET priceRange == self.maxPrice - self.minPrice
         IN IF priceRange = 0 THEN FloorHalf(self.height)
            ELSE buffer + RoundDiv((self.maxPrice - price)
                                   * (self.height - 2 * buffer), priceRange)

priceToRow(self, price) ==
    IF Len(self.candles) = 0 THEN 0
    ELSE LET priceRange == self.maxPrice - self.minPrice
         IN IF priceRange = 0 THEN FloorHalf(self.height)
            ELSE LET availableHeight == self.height - 2 * buffer
                     row == buffer
                            + RoundDiv((self.maxPrice - price) * availableHeight,
                                       priceRange)
                 IN Max(buffer, Min(row, self.height - buffer - 1))

setCell(self, row, col, char) ==
    IF row >= 0 /\ row < self.height /\ col >= 0 /\ col < self.width
    THEN [self EXCEPT !.data[row][col] = char]
    ELSE self

\* One cell write of drawCandle
Write(row, col, char) == [row |-> row, col |-> col, char |-> char]

bodySymbol(candle) == IF candle.type = "bullish" THEN bullishBody ELSE bearishBody

\* The writes of the body loop for one row: column - 1, column, column + 1
bodyRowWrites(self, candle, row) ==
    (IF candle.column > 0
     THEN <<Write(row, candle.column - 1, bodySymbol(candle))>> ELSE <<>>)
    \o <<Write(row, candle.column, bodySymbol(candle))>>
    \o (IF candle.column < self.width - 1
        THEN <<Write(row, candle.column + 1, bodySymbol(candle))>> ELSE <<>>)

\* The body loop stopping before bodyBottomRow
RECURSIVE bodyWrites_Exclusive(_, _, _, _)
bodyWrites_Exclusive(self, candle, row, bodyBottomRow) ==
    IF row >= bodyBottomRow THEN <<>>
    ELSE bodyRowWrites(self, candle, row)
         \o bodyWrites_Exclusive(self, candle, row + 1, bodyBottomRow)

RECURSIVE bodyWrites(_, _, _, _)
bodyWrites(self, candle, row, bodyBottomRow) ==
    IF row > bodyBottomRow THEN <<>>
    ELSE bodyRowWrites(self, candle, row)
         \o bodyWrites(self, candle, row + 1, bodyBottomRow)

\* The writes of a wick loop: rows from .. to at the candle's column
wickWrites(candle, from, to) ==
    [k \in 1 .. Max(0, to - from + 1) |->
        Write(from + k - 1, candle.column, wickSymbol)]

\* Every setCell call drawCandle makes for one candle, in order
drawWrites(self, candle) ==
    LET highRow == priceToRow(self, candle.highPrice)
        openRow == priceToRow(self, candle.openPrice)
        closeRow == priceToRow(self, candle.closePrice)
        lowRow == priceToRow(self, candle.lowPrice)
        bodyTopRow == Min(openRow, closeRow)
        bodyBottomRow == Max(openRow, closeRow)
    IN wickWrites(candle, highRow, bodyTopRow - 1)
       \o bodyWrites(self, candle, bodyTopRow, bodyBottomRow)
       \o wickWrites(candle, bodyBottomRow + 1, lowRow)

RECURSIVE applyWrites(_, _)
applyWrites(self, writes) ==
    IF writes = <<>> THEN self
    ELSE applyWrites(setCell(self, Head(writes).row, Head(writes).col,
                             Head(writes).char),
                     Tail(writes))

drawCandle(self, candle) == applyWrites(self, drawWrites(self, candle))

\* The redraw loop adding the running column to the stored one
RECURSIVE redrawFrom_Accumulate(_, _, _)
redrawFrom_Accumulate(self, i, currentColumn) ==
    IF i >= Len(self.candles) THEN self
    ELSE LET placed == [self EXCEPT !.candles[i + 1].column = @ + currentColumn]
         IN redrawFrom_Accumulate(drawCandle(placed, placed.candles[i + 1]),
                                  i + 1, currentColumn + columnStride)

\* The redraw loop advancing the column by the body width only
RECURSIVE redrawFrom_Narrow(_, _, _)
redrawFrom_Narrow(self, i, currentColumn) ==
    IF i >= Len(self.candles) THEN self
    ELSE LET placed == [self EXCEPT !.candles[i + 1].column = currentColumn]
         IN redrawFrom_Narrow(drawCandle(placed, placed.candles[i + 1]),
                              i + 1, currentColumn + 2)

\* The loop of redrawAllCandles from index i (0-based) on
RECURSIVE redrawFrom(_, _, _)
redrawFrom(self, i, currentColumn) ==
    IF i >= Len(self.candles) THEN self
    ELSE LET placed == [self EXCEPT !.candles[i + 1].column = currentColumn]
         IN redrawFrom(drawCandle(placed, placed.candles[i + 1]),
                       i + 1, currentColumn + columnStride)

redrawAllCandles(self) ==
    redrawFrom([self EXCEPT !.data = createEmptyMatrix(self.width, self.height)],
               0, firstColumn)

\* positionFirst with the lower wick left out of the low price
positionFirst_NoLowerWick(candle) ==
    [type |-> candle.type,
     bodySize |-> candle.bodySize,
     upperWick |-> candle.upperWick,
     lowerWick |-> candle.lowerWick,
     column |-> firstColumn,
     highPrice |-> basePrice + candle.upperWick,
     openPrice |-> IF candle.type = "bullish"
                   THEN basePrice - candle.bodySize ELSE basePrice,
     closePrice |-> IF candle.type = "bullish"
                    THEN basePrice ELSE basePrice - candle.bodySize,
     lowPrice |-> basePrice - candle.bodySize]

\* The price levels and column addFirstCandle gives its candle
positionFirst(candle) ==
    LET highPrice == basePrice + candle.upperWick
        lowPrice == basePrice - candle.bodySize - candle.lowerWick
        openPrice == IF candle.type = "bullish"
                     THEN basePrice - candle.bodySize ELSE basePrice
        closePrice == IF candle.type = "bullish"
                      THEN basePrice ELSE basePrice - candle.bodySize
    IN [type |-> candle.type,
        bodySize |-> candle.bodySize,
        upperWick |-> candle.upperWick,
        lowerWick |-> candle.lowerWick,
        column |-> firstColumn,
        highPrice |-> highPrice,
        openPrice |-> openPrice,
        closePrice |-> closePrice,
        lowPrice |-> lowPrice]

\* nextOpenPrice with the separation applied on every transition
nextOpenPrice_AlwaysSeparated(prevCandle, candle) ==
    IF candle.type = "bullish"
    THEN prevCandle.closePrice + visualSeparation
    ELSE prevCandle.closePrice - visualSeparation

\* The open price addCandle derives from the previous candle's close
nextOpenPrice(prevCandle, candle) ==
    LET prevClose == prevCandle.closePrice
    IN IF prevCandle.type = "bullish" /\ candle.type = "bullish"
       THEN prevClose + visualSeparation
       ELSE IF prevCandle.type = "bearish" /\ candle.type = "bearish"
            THEN prevClose - visualSeparation
            ELSE prevClose

addFirstCandle(self, candle) ==
    LET totalHeight == candle.bodySize + candle.upperWick + candle.lowerWick
        requiredHeight == totalHeight + 2 * buffer
        grown == IF requiredHeight > self.height
                 THEN expandMatrix(self, self.width, requiredHeight)
                 ELSE self
        positioned == positionFirst(candle)
    IN redrawAllCandles([grown EXCEPT !.candles = Append(@, positioned),
                                      !.minPrice = positioned.lowPrice,
                                      !.maxPrice = positioned.highPrice])

\* positionNext with the bearish low price taken below the open, as in the
\* bullish branch
positionNext_LowFromOpen(prevCandle, candle) ==
    LET openPrice == nextOpenPrice(prevCandle, candle)
        closePrice == IF candle.type = "bullish"
                      THEN openPrice + candle.bodySize
                      ELSE openPrice - candle.bodySize
    IN [type |-> candle.type,
        bodySize |-> candle.bodySize,
        upperWick |-> candle.upperWick,
        lowerWick |-> candle.lowerWick,
        column |-> prevCandle.column + columnStride,
        highPrice |-> IF candle.type = "bullish"
                      THEN closePrice + candle.upperWick
                      ELSE openPrice + candle.upperWick,
        openPrice |-> openPrice,
        closePrice |-> closePrice,
        lowPrice |-> openPrice - candle.lowerWick]

\* The price levels and provisional column addCandle gives its candle
positionNext(prevCandle, candle) ==
    LET openPrice == nextOpenPrice(prevCandle, candle)
        closePrice == IF candle.type = "bullish"
                      THEN openPrice + candle.bodySize
                      ELSE openPrice - candle.bodySize
        highPrice == IF candle.type = "bullish"
                     THEN closePrice + candle.upperWick
                     ELSE openPrice + candle.upperWick
        lowPrice == IF candle.type = "bullish"
                    THEN openPrice - candle.lowerWick
                    ELSE closePrice - candle.lowerWick
    IN [type |-> candle.type,
        bodySize |-> candle.bodySize,
        upperWick |-> candle.upperWick,
        lowerWick |-> candle.lowerWick,
        column |-> prevCandle.column + columnStride,
        highPrice |-> highPrice,
        openPrice |-> openPrice,
        closePrice |-> closePrice,
        lowPrice |-> lowPrice]

\* addCandle sizing the width for the candles already stored only
addCandle_NarrowWidth(self, candle) ==
    IF Len(self.candles) = 0 THEN addFirstCandle(self, candle)
    ELSE
    LET prevCandle == self.candles[Len(self.candles)]
        positioned == positionNext(prevCandle, candle)
        newMin == Min(self.minPrice, positioned.lowPrice)
        newMax == Max(self.maxPrice, positioned.highPrice)
        requiredHeight == (newMax - newMin) + 2 * buffer
        requiredWidth == Len(self.candles) * columnStride + firstColumn
        bounded == [self EXCEPT !.minPrice = newMin, !.maxPrice = newMax]
        grown == IF requiredHeight > bounded.height \/ requiredWidth > bounded.width
                 THEN expandMatrix(bounded, requiredWidth, requiredHeight)
                 ELSE bounded
    IN redrawAllCandles([grown EXCEPT !.candles = Append(@, positioned)])

\* addCandle without the delegation: on the empty session the candle opens at
\* the base price and is positioned as a subsequent candle
addCandle_NoDelegation(self, candle) ==
    LET prevCandle == IF Len(self.candles) = 0
                      THEN [type |-> "none", closePrice |-> basePrice,
                            column |-> firstColumn - columnStride]
                      ELSE self.candles[Len(self.candles)]
        positioned == positionNext(prevCandle, candle)
        newMin == Min(self.minPrice, positioned.lowPrice)
        newMax == Max(self.maxPrice, positioned.highPrice)
        requiredHeight == (newMax - newMin) + 2 * buffer
        requiredWidth == (Len(self.candles) + 1) * columnStride + firstColumn
        bounded == [self EXCEPT !.minPrice = newMin, !.maxPrice = newMax]
        grown == IF requiredHeight > bounded.height \/ requiredWidth > bounded.width
                 THEN expandMatrix(bounded, requiredWidth, requiredHeight)
                 ELSE bounded
    IN redrawAllCandles([grown EXCEPT !.candles = Append(@, positioned)])

\* addCandle replacing the price range by the new candle's own extremes
addCandle_OwnRange(self, candle) ==
    IF Len(self.candles) = 0 THEN addFirstCandle(self, candle)
    ELSE
    LET prevCandle == self.candles[Len(self.candles)]
        positioned == positionNext(prevCandle, candle)
        newMin == positioned.lowPrice
        newMax == positioned.highPrice
        requiredHeight == (newMax - newMin) + 2 * buffer
        requiredWidth == (Len(self.candles) + 1) * columnStride + firstColumn
        bounded == [self EXCEPT !.minPrice = newMin, !.maxPrice = newMax]
        grown == IF requiredHeight > bounded.height \/ requiredWidth > bounded.width
                 THEN expandMatrix(bounded, requiredWidth, requiredHeight)
                 ELSE bounded
    IN redrawAllCandles([grown EXCEPT !.candles = Append(@, positioned)])

addCandle(self, candle) ==
    IF Len(self.candles) = 0 THEN addFirstCandle(self, candle)
    ELSE
    LET prevCandle == self.candles[Len(self.candles)]
        positioned == positionNext(prevCandle, candle)
        newMin == Min(self.minPrice, positioned.lowPrice)
        newMax == Max(self.maxPrice, positioned.highPrice)
        priceRange == newMax - newMin
        \* Math.ceil(priceRange) = priceRange: prices are integers
        requiredHeight == priceRange + 2 * buffer
        requiredWidth == (Len(self.candles) + 1) * columnStride + firstColumn
        bounded == [self EXCEPT !.minPrice = newMin, !.maxPrice = newMax]
        grown == IF requiredHeight > bounded.height \/ requiredWidth > bounded.width
                 THEN expandMatrix(bounded, requiredWidth, requiredHeight)
                 ELSE bounded
    IN redrawAllCandles([grown EXCEPT !.candles = Append(@, positioned)])

\* The routine that positions a candle passed to addCandle
positionedBy(self) ==
    IF Len(self.candles) = 0 THEN "addFirstCandle" ELSE "addCandle"

----------------------------------------------------------------------------
(* The chart: MatrixASCIIChart's add operations on its DynamicMatrix *)

Candle(type, bodySize, upperWick, lowerWick) ==
    [type |-> type, bodySize |-> bodySize,
     upperWick |-> upperWick, lowerWick |-> lowerWick]

NoCall == [newWidth |-> 0, newHeight |-> 0, self |-> <<>>]

\* The last add operation called on the chart, with its arguments
Called(op, bodySize, upperWick, lowerWick) ==
    [op |-> op, bodySize |-> bodySize,
     upperWick |-> upperWick, lowerWick |-> lowerWick]

NotCalled == Called("none", 0, 0, 0)

\* toString not called since the last add or option change
NoText == [made |-> FALSE, text |-> <<>>, session |-> <<>>]

Init ==
    /\ width = defaultWidth
    /\ height = defaultHeight
    /\ data = createEmptyMatrix(defaultWidth, defaultHeight)
    /\ minPrice = Infinity
    /\ maxPrice = -Infinity
    /\ candles = <<>>
    /\ how = <<>>
    /\ before = NoCall
    /\ called = NotCalled
    /\ showAxes = FALSE
    /\ showLabels = FALSE
    /\ rendered = NoText

Becomes(next) ==
    /\ data' = next.data
    /\ width' = next.width
    /\ height' = next.height
    /\ minPrice' = next.minPrice
    /\ maxPrice' = next.maxPrice
    /\ candles' = next.candles

firstBullish(bodySize, upperWick, lowerWick) ==
    /\ Becomes(addFirstCandle(this, Candle("bullish", bodySize, upperWick, lowerWick)))
    /\ how' = Append(how, "addFirstCandle")
    /\ called' = Called("firstBullish", bodySize, upperWick, lowerWick)
    /\ rendered' = NoText
    /\ UNCHANGED <<before, showAxes, showLabels>>

firstBearish(bodySize, upperWick, lowerWick) ==
    /\ Becomes(addFirstCandle(this, Candle("bearish", bodySize, upperWick, lowerWick)))
    /\ how' = Append(how, "addFirstCandle")
    /\ called' = Called("firstBearish", bodySize, upperWick, lowerWick)
    /\ rendered' = NoText
    /\ UNCHANGED <<before, showAxes, showLabels>>

addBullish(bodySize, upperWick, lowerWick) ==
    /\ Becomes(addCandle(this, Candle("bullish", bodySize, upperWick, lowerWick)))
    /\ how' = Append(how, positionedBy(this))
    /\ called' = Called("addBullish", bodySize, upperWick, lowerWick)
    /\ rendered' = NoText
    /\ UNCHANGED <<before, showAxes, showLabels>>

addBearish(bodySize, upperWick, lowerWick) ==
    /\ Becomes(addCandle(this, Candle("bearish", bodySize, upperWick, lowerWick)))
    /\ how' = Append(how, positionedBy(this))
    /\ called' = Called("addBearish", bodySize, upperWick, lowerWick)
    /\ rendered' = NoText
    /\ UNCHANGED <<before, showAxes, showLabels>>

Next ==
    /\ Len(candles) < MaxCandles
    /\ \E bodySize \in BodySizes, upperWick \in UpperWicks, lowerWick \in LowerWicks :
        \/ firstBullish(bodySize, upperWick, lowerWick)
        \/ firstBearish(bodySize, upperWick, lowerWick)
        \/ addBullish(bodySize, upperWick, lowerWick)
        \/ addBearish(bodySize, upperWick, lowerWick)

Spec == Init /\ [][Next]_vars

----------------------------------------------------------------------------
(* Rendering: MatrixASCIIChart.toString.  A text is the sequence of its     *)
(* lines, a line the sequence of its characters; text column k of a line is *)
(* its element k + 1.  The arrows U+2191 and U+2192 are written "^" and ">". *)

axisWidth == 4
axisHeight == 3
timeAxisMargin == 10
rowOffset == 2
maxArrowCol == 53
upArrow == "^"
rightArrow == ">"

priceLabel == <<"P", "r", "i", "c", "e">>
timeLabel == <<"T", "i", "m", "e">>
priceLine == <<" ", "P", "r", "i", "c", "e">>
arrowLine == <<" ", " ", " ", upArrow, " ">>

digit(n) == CASE n = 0 -> "0" [] n = 1 -> "1" [] n = 2 -> "2" [] n = 3 -> "3"
              [] n = 4 -> "4" [] n = 5 -> "5" [] n = 6 -> "6" [] n = 7 -> "7"
              [] n = 8 -> "8" [] n = 9 -> "9"

\* The decimal digits of n >= 0, as in a template literal
RECURSIVE decimal(_)
decimal(n) == IF n < 10 THEN <<digit(n)>>
              ELSE Append(decimal(n \div 10), digit(n % 10))

\* The rows of a 0-based grid as lines
rowText(matrixRow) ==
    [k \in 1 .. Cardinality(DOMAIN matrixRow) |-> matrixRow[k - 1]]

\* DynamicMatrix.toString: the grid rows, untrimmed
matrixText(self) ==
    [k \in 1 .. self.height |-> rowText(self.data[k - 1])]

writeString(matrix, row, col, text) ==
    IF row \notin DOMAIN matrix THEN matrix
    ELSE [matrix EXCEPT ![row] =
            [c \in DOMAIN @ |->
                IF c >= col /\ c - col < Len(text)
                   /\ c < Cardinality(DOMAIN matrix[0])
                THEN text[c - col + 1] ELSE @[c]]]

findCandleTop(matrix, column) ==
    LET filled == {row \in DOMAIN matrix :
                      column \notin DOMAIN matrix[row]
                      \/ matrix[row][column] # blank}
    IN IF filled = {} THEN 0
       ELSE CHOOSE row \in filled : \A other \in filled : row <= other

\* The label loop of toString from candle index (0-based) on
RECURSIVE writeLabels(_, _, _, _)
writeLabels(matrix, cs, index, colOffset) ==
    IF index >= Len(cs) THEN matrix
    ELSE LET candle == cs[index + 1]
             label == <<"C">> \o decimal(index + 1)
             labelCol == candle.column + colOffset - 1
             labelRow == findCandleTop(matrix, candle.column + colOffset) - 1
         IN writeLabels(IF labelRow >= 0
                        THEN writeString(matrix, labelRow, labelCol, label)
                        ELSE matrix,
                        cs, index + 1, colOffset)

\* String.trimEnd on a line
RECURSIVE trimEnd(_)
trimEnd(line) ==
    IF line # <<>> /\ line[Len(line)] = " "
    THEN trimEnd(SubSeq(line, 1, Len(line) - 1))
    ELSE line

\* The loop of matrixToString dropping empty lines at the end
RECURSIVE dropEmptyEnd(_)
dropEmptyEnd(lines) ==
    IF lines # <<>> /\ lines[Len(lines)] = <<>>
    THEN dropEmptyEnd(SubSeq(lines, 1, Len(lines) - 1))
    ELSE lines

matrixToString(matrix) ==
    dropEmptyEnd([k \in 1 .. Cardinality(DOMAIN matrix) |->
                    IF k - 1 = 0 THEN priceLine
                    ELSE IF k - 1 = 1 THEN arrowLine
                         ELSE trimEnd(rowText(matrix[k - 1]))])

\* The dot loop of toString from candle index (0-based) on
RECURSIVE writeDots(_, _, _, _, _, _)
writeDots(matrix, cs, index, colOffset, timeRow, totalWidth) ==
    IF index >= Len(cs) THEN matrix
    ELSE LET dotCol == cs[index + 1].column + colOffset
         IN writeDots(IF dotCol < totalWidth - timeAxisMargin
                      THEN [matrix EXCEPT ![timeRow][dotCol] = "."]
                      ELSE matrix,
                      cs, index + 1, colOffset, timeRow, totalWidth)

\* The arrow column of the time axis
arrowColumn(totalWidth) == Min(totalWidth - timeAxisMargin, maxArrowCol)

\* MatrixASCIIChart.toString on the session, with the two options
chartText(self, axes, labels) ==
    IF ~axes THEN matrixText(self)
    ELSE
    LET totalWidth == self.width + axisWidth + timeAxisMargin
        totalHeight == self.height + axisHeight
        colOffset == axisWidth + 2
        empty == [row \in 0 .. (totalHeight - 1) |->
                    [col \in 0 .. (totalWidth - 1) |-> blank]]
        titled == writeString(empty, 0, 1, priceLabel)
        arrowed == [titled EXCEPT ![1][3] = upArrow, ![1][4] = blank]
        axis == [row \in 0 .. (totalHeight - 1) |->
                    IF row >= 2 /\ row < totalHeight - 1
                    THEN [arrowed[row] EXCEPT ![3] = "|"]
                    ELSE arrowed[row]]
        copied == [row \in 0 .. (totalHeight - 1) |->
                     [col \in 0 .. (totalWidth - 1) |->
                        IF /\ row - rowOffset \in 0 .. (self.height - 1)
                           /\ col - colOffset \in 0 .. (self.width - 1)
                           /\ self.data[row - rowOffset][col - colOffset] # blank
                        THEN self.data[row - rowOffset][col - colOffset]
                        ELSE axis[row][col]]]
        labelled == IF labels
                    THEN writeLabels(copied, self.candles, 0, colOffset)
                    ELSE copied
        timeRow == totalHeight - 1
        timed == [labelled EXCEPT ![timeRow] =
                    [col \in DOMAIN @ |->
                        IF col >= 4 /\ col < totalWidth - timeAxisMargin
                        THEN "_" ELSE @[col]]]
        dotted == writeDots(timed, self.candles, 0, colOffset, timeRow, totalWidth)
        arrowCol == arrowColumn(totalWidth)
        pointed == [dotted EXCEPT ![timeRow][arrowCol] = rightArrow]
        named == writeString(pointed, timeRow, arrowCol + 2, timeLabel)
    IN matrixToString(named)

withAxes ==
    /\ showAxes' = TRUE
    /\ rendered' = NoText
    /\ UNCHANGED <<data, width, height, minPrice, maxPrice, candles, how,
                   before, called, showLabels>>

withAnnotations ==
    /\ showLabels' = TRUE
    /\ rendered' = NoText
    /\ UNCHANGED <<data, width, height, minPrice, maxPrice, candles, how,
                   before, called, showAxes>>

\* toString; rendered keeps the text returned and the session it was called on
toString ==
    /\ Becomes(this)
    /\ rendered' = [made |-> TRUE,
                    text |-> chartText(this, showAxes, showLabels),
                    session |-> this]
    /\ UNCHANGED <<how, before, called, showAxes, showLabels>>

\* A long chart of small candles, built as in the README: one first add, then
\* add-subsequent calls, options and rendering at any time
MaxChartCandles == 9
ChartBody == 1

NextChart ==
    \/ /\ Len(candles) = 0
       /\ \/ firstBullish(ChartBody, 0, 0)
          \/ firstBearish(ChartBody, 0, 0)
    \/ /\ Len(candles) >= 1
       /\ Len(candles) < MaxChartCandles
       /\ \/ addBullish(ChartBody, 0, 0)
          \/ addBearish(ChartBody, 0, 0)
    \/ withAxes
    \/ withAnnotations
    \/ toString

SpecChart == Init /\ [][NextChart]_vars

----------------------------------------------------------------------------
(* expandMatrix on its own: any small canvas, any requested extent *)

SmallGlyphs == {blank, wickSymbol}

InitExpand ==
    /\ width \in 1 .. MaxGridSide
    /\ height \in 1 .. MaxGridSide
    /\ data \in [0 .. (height - 1) -> [0 .. (width - 1) -> SmallGlyphs]]
    /\ minPrice = Infinity
    /\ maxPrice = -Infinity
    /\ candles = <<>>
    /\ how = <<>>
    /\ before = NoCall
    /\ called = NotCalled
    /\ showAxes = FALSE
    /\ showLabels = FALSE
    /\ rendered = NoText

expand(newWidth, newHeight) ==
    /\ Becomes(expandMatrix(this, newWidth, newHeight))
    /\ before' = [newWidth |-> newWidth, newHeight |-> newHeight, self |-> this]
    /\ UNCHANGED <<how, called, showAxes, showLabels, rendered>>

NextExpand ==
    \E newWidth \in 0 .. MaxRequest, newHeight \in 0 .. MaxRequest :
        expand(newWidth, newHeight)

SpecExpand == InitExpand /\ [][NextExpand]_vars

----------------------------------------------------------------------------
(* Properties *)

Indices == 1 .. Len(candles)

\* The session was built by one first add on the empty session followed by
\* add-subsequent calls only
ProperSession ==
    /\ Len(candles) >= 1
    /\ \A i \in 2 .. Len(candles) : how[i] = "addCandle"

DimensionsNeverShrink ==
    [][width' >= width /\ height' >= height]_vars

DimensionsNeverShrinkWitness ==
    /\ Len(candles) = 2
    /\ width > defaultWidth
    /\ height > defaultHeight

\* C3: expandMatrix(newWidth, newHeight) on a (w, h) canvas yields a canvas of
\* size (max(w, newWidth), max(h, newHeight)) whose cells with row < h and
\* col < w are unchanged and whose other cells are blank; it changes nothing
\* when newWidth <= w and newHeight <= h.
ExpandPreservesContent ==
    before # NoCall =>
        LET old == before.self
        IN /\ width = Max(old.width, before.newWidth)
           /\ height = Max(old.height, before.newHeight)
           /\ DOMAIN data = 0 .. (height - 1)
           /\ \A row \in 0 .. (height - 1) :
                 /\ DOMAIN data[row] = 0 .. (width - 1)
                 /\ \A col \in 0 .. (width - 1) :
                       data[row][col] =
                           IF row < old.height /\ col < old.width
                           THEN old.data[row][col] ELSE blank
           /\ (before.newWidth <= old.width /\ before.newHeight <= old.height)
                 => this = old

ExpandPreservesContentWitness ==
    /\ before # NoCall
    /\ before.newHeight > before.self.height
    /\ before.newWidth < before.self.width
    /\ \E row \in 0 .. (before.self.height - 1),
          col \in 0 .. (before.self.width - 1) :
            before.self.data[row][col] # blank /\ data[row][col] # blank

\* Prices probed: the session's range and PriceMargin beyond it on each side
ProbedPrices ==
    (minPrice - PriceMargin) .. (maxPrice + PriceMargin)
    \cup {candles[i].highPrice : i \in Indices}
    \cup {candles[i].lowPrice : i \in Indices}

\* C4: with at least one candle, priceToRow is non-increasing in the price,
\* always lies in [buffer, height - buffer - 1], and maps maxPrice to row
\* buffer and minPrice to row height - buffer - 1 when maxPrice > minPrice.
PriceToRowMonotoneAndClamped ==
    Len(candles) >= 1 =>
        /\ \A p1, p2 \in ProbedPrices :
              p1 >= p2 => priceToRow(this, p1) <= priceToRow(this, p2)
        /\ \A p \in ProbedPrices :
              /\ priceToRow(this, p) >= buffer
              /\ priceToRow(this, p) <= height - buffer - 1
        /\ maxPrice > minPrice =>
              /\ priceToRow(this, maxPrice) = buffer
              /\ priceToRow(this, minPrice) = height - buffer - 1

PriceToRowMonotoneAndClampedWitness ==
    /\ Len(candles) = 2
    /\ maxPrice > minPrice
    /\ height > defaultHeight
    /\ \E i \in Indices : candles[i].lowPrice < minPrice
    /\ \E p \in ProbedPrices :
          /\ priceToRow(this, p) > buffer
          /\ priceToRow(this, p) < height - buffer - 1

\* C5: after every add the top buffer rows and the bottom buffer rows of the
\* grid are blank: no glyph is drawn outside rows [buffer, height - buffer - 1].
BufferRowsBlank ==
    \A row \in (0 .. (buffer - 1)) \cup ((height - buffer) .. (height - 1)) :
        \A col \in 0 .. (width - 1) : data[row][col] = blank

BufferRowsBlankWitness ==
    /\ Len(candles) = 2
    /\ \E col \in 0 .. (width - 1) : data[buffer][col] = wickSymbol
    /\ \E col \in 0 .. (width - 1) : data[height - buffer - 1][col] = wickSymbol

\* C6: a first candle (kind, b, u, l) on the empty session is stored alone with
\* highPrice = 100 + u, lowPrice = 100 - b - l, (open, close) = (100 - b, 100)
\* if bullish and (100, 100 - b) if bearish; minPrice and maxPrice are its low
\* and high; the canvas is 7 wide and max(7, u + b + l + 2) high.
FirstCandlePlacement ==
    Len(candles) = 1 =>
        LET c == candles[1]
            b == c.bodySize
            u == c.upperWick
            l == c.lowerWick
        IN /\ c.highPrice = 100 + u
           /\ c.lowPrice = 100 - b - l
           /\ c.type = "bullish" => (c.openPrice = 100 - b /\ c.closePrice = 100)
           /\ c.type = "bearish" => (c.openPrice = 100 /\ c.closePrice = 100 - b)
           /\ minPrice = c.lowPrice
           /\ maxPrice = c.highPrice
           /\ width = 7
           /\ height = Max(7, u + b + l + 2)

FirstCandlePlacementWitness ==
    /\ Len(candles) = 1
    /\ candles[1].type = "bearish"
    /\ candles[1].bodySize = 3
    /\ candles[1].upperWick = 1
    /\ candles[1].lowerWick = 2
    /\ candles[1].highPrice = 101
    /\ candles[1].openPrice = 100
    /\ candles[1].closePrice = 97
    /\ candles[1].lowPrice = 95
    /\ height = 8

BodyGlyphs == {bullishBody, bearishBody}

bodyTopRow(c) == Min(priceToRow(this, c.openPrice), priceToRow(this, c.closePrice))

bodyBottomRow(c) == Max(priceToRow(this, c.openPrice), priceToRow(this, c.closePrice))

\* C7: in a session built by a first add followed by add-subsequent calls,
\* every candle's body occupies exactly the rows min(openRow, closeRow) ..
\* max(openRow, closeRow), at least one row, and in each of them the cells
\* column - 1, column, column + 1 hold the body glyph of the candle's kind;
\* the two kinds have different glyphs.
BodyRowsPainted ==
    ProperSession =>
        /\ bullishBody # bearishBody
        /\ \A i \in Indices :
              LET c == candles[i]
              IN /\ bodyTopRow(c) <= bodyBottomRow(c)
                 /\ \A row \in 0 .. (height - 1) :
                       IF row \in bodyTopRow(c) .. bodyBottomRow(c)
                       THEN \A col \in {c.column - 1, c.column, c.column + 1} :
                               data[row][col] = bodySymbol(c)
                       ELSE \A col \in {c.column - 1, c.column, c.column + 1} :
                               data[row][col] \notin BodyGlyphs

BodyRowsPaintedWitness ==
    /\ ProperSession
    /\ Len(candles) = 2
    /\ \E i \in Indices :
          candles[i].bodySize = 0 /\ bodyTopRow(candles[i]) = bodyBottomRow(candles[i])
    /\ \E i \in Indices :
          bodyBottomRow(candles[i]) - bodyTopRow(candles[i]) >= 2

RECURSIVE MinOver(_), MaxOver(_)
MinOver(S) ==
    LET x == CHOOSE y \in S : TRUE
    IN IF S = {x} THEN x ELSE Min(x, MinOver(S \ {x}))

MaxOver(S) ==
    LET x == CHOOSE y \in S : TRUE
    IN IF S = {x} THEN x ELSE Max(x, MaxOver(S \ {x}))

BoundsCoverCandles ==
    /\ minPrice = MinOver({candles[i].lowPrice : i \in Indices})
    /\ maxPrice = MaxOver({candles[i].highPrice : i \in Indices})

\* C8 as stated: after any sequence of firstBullish, firstBearish, addBullish
\* and addBearish calls leaving at least one candle, minPrice is the least
\* lowPrice and maxPrice the greatest highPrice over the stored candles.
BoundsCoverCandlesAnyOrder ==
    Len(candles) >= 1 => BoundsCoverCandles

\* C8 amended: the same, for sequences in which firstBullish / firstBearish is
\* called only on the empty session.
BoundsCoverCandlesProper ==
    ProperSession => BoundsCoverCandles

BoundsCoverCandlesProperWitness ==
    /\ ProperSession
    /\ Len(candles) = 2
    /\ minPrice < candles[1].lowPrice
    /\ maxPrice > candles[2].highPrice

\* C9: every stored candle has highPrice >= max(open, close) and lowPrice <=
\* min(open, close); a bullish candle closes at or above its open, a bearish one
\* at or below, with equality only for bodySize = 0; open and close differ by
\* exactly bodySize.
CandlePricesOrdered ==
    \A i \in Indices :
        LET c == candles[i]
        IN /\ c.highPrice >= Max(c.openPrice, c.closePrice)
           /\ c.lowPrice <= Min(c.openPrice, c.closePrice)
           /\ c.type = "bullish" => c.closePrice >= c.openPrice
           /\ c.type = "bearish" => c.closePrice <= c.openPrice
           /\ c.closePrice = c.openPrice => c.bodySize = 0
           /\ Max(c.openPrice, c.closePrice) - Min(c.openPrice, c.closePrice)
                = c.bodySize

CandlePricesOrderedWitness ==
    /\ Len(candles) = 2
    /\ how[2] = "addCandle"
    /\ candles[1].bodySize = 0
    /\ candles[1].closePrice = candles[1].openPrice
    /\ candles[2].type = "bearish"
    /\ candles[2].bodySize > candles[2].lowerWick
    /\ candles[2].lowPrice < candles[2].closePrice
    /\ candles[2].highPrice > candles[2].openPrice

\* The grid cells drawCandle writes for the i-th candle
CandleCells(i) ==
    LET writes == drawWrites(this, candles[i])
    IN {<<writes[k].row, writes[k].col>> : k \in 1 .. Len(writes)}

\* C10: after every add the i-th candle (i = 0, 1, ...) stands at column
\* 3 + 6 * i, and no grid cell is written for two different candles.
ColumnsSpacedApart ==
    /\ \A i \in Indices : candles[i].column = 3 + 6 * (i - 1)
    /\ \A i, j \in Indices : i # j => CandleCells(i) \cap CandleCells(j) = {}

ColumnsSpacedApartWitness ==
    /\ Len(candles) = 2
    /\ candles[1].column = 3
    /\ candles[2].column = 9
    /\ width > 8
    /\ \E row \in 0 .. (height - 1) :
          /\ data[row][4] \in BodyGlyphs
          /\ data[row][8] \in BodyGlyphs

\* The session a new DynamicMatrix holds
EmptySession ==
    Session(createEmptyMatrix(defaultWidth, defaultHeight),
            defaultWidth, defaultHeight, Infinity, -Infinity, <<>>)

calledCandle ==
    Candle(IF called.op \in {"firstBullish", "addBullish"}
           THEN "bullish" ELSE "bearish",
           called.bodySize, called.upperWick, called.lowerWick)

\* C11: addCandle (addBullish / addBearish) on the empty session leaves exactly
\* the session (candle, prices, column, bounds, extent, grid) that
\* addFirstCandle with the same candle leaves on the empty session.
AddOnEmptyIsAddFirst ==
    (Len(candles) = 1 /\ called.op \in {"addBullish", "addBearish"})
        => this = addFirstCandle(EmptySession, calledCandle)

AddOnEmptyIsAddFirstWitness ==
    /\ Len(candles) = 1
    /\ called.op = "addBullish"
    /\ called.bodySize > 0
    /\ candles[1].closePrice = basePrice
    /\ candles[1].openPrice = basePrice - called.bodySize
    /\ height > defaultHeight

\* C12: every reachable session is the result of a redraw, and redrawing it
\* again with no add in between leaves the grid, the extent, the price bounds
\* and every candle's column and prices as they are.
RedrawIdempotent ==
    redrawAllCandles(this) = this

RedrawIdempotentWitness ==
    /\ Len(candles) = 2
    /\ width > defaultWidth
    /\ \E row \in 0 .. (height - 1) : data[row][candles[2].column] # blank
    /\ redrawAllCandles(this).data = data
    /\ redrawAllCandles(this).candles = candles

\* The write lands inside the grid, so setCell performs it
InGrid(write) ==
    /\ write.row >= 0
    /\ write.row < height
    /\ write.col >= 0
    /\ write.col < width

\* C13: in a session built by one first add on the empty session followed by
\* add-subsequent calls, the canvas holds columns column - 1 .. column + 1 of
\* every candle and every cell drawCandle writes while redrawing, so setCell
\* discards no write.
WritesStayInGrid ==
    ProperSession =>
        \A i \in Indices :
            LET writes == drawWrites(this, candles[i])
            IN /\ candles[i].column - 1 >= 0
               /\ candles[i].column + 1 < width
               /\ \A k \in 1 .. Len(writes) : InGrid(writes[k])

WritesStayInGridWitness ==
    /\ ProperSession
    /\ Len(candles) = 2
    /\ width = 2 * columnStride + firstColumn
    /\ height > defaultHeight
    /\ \E k \in 1 .. Len(drawWrites(this, candles[2])) :
          /\ drawWrites(this, candles[2])[k].col = candles[2].column + 1
          /\ drawWrites(this, candles[2])[k].row = height - buffer - 1
    /\ \E k \in 1 .. Len(drawWrites(this, candles[1])) :
          drawWrites(this, candles[1])[k].char = wickSymbol

\* The glyph shown at (row, col); nothing is drawn outside the grid
glyphAt(row, col) ==
    IF row >= 0 /\ row < height /\ col >= 0 /\ col < width
    THEN data[row][col] ELSE blank

wickAbove(c) ==
    \E row \in 0 .. (bodyTopRow(c) - 1) : glyphAt(row, c.column) = wickSymbol

wickBelow(c) ==
    \E row \in (bodyBottomRow(c) + 1) .. (height - 1) :
        glyphAt(row, c.column) = wickSymbol

WicksShown(c) ==
    /\ c.upperWick >= 1 => wickAbove(c)
    /\ c.lowerWick >= 1 => wickBelow(c)
    /\ c.upperWick = 0 => ~wickAbove(c)
    /\ c.lowerWick = 0 => ~wickBelow(c)

\* Every stored candle shows its wicks
EveryWickShown ==
    \A i \in Indices : WicksShown(candles[i])

\* C14: after any add every stored candle with upperWick >= 1 shows a wick
\* glyph in its column above its body, every one with lowerWick >= 1 shows one
\* below its body, and a wick of size 0 shows none.  Stated for the sessions
\* built by one first add and add-subsequent calls, where every candle stands
\* inside the grid; the claim covers them.
EveryWickShownProper ==
    ProperSession => EveryWickShown

\* The last line of the text toString returned
lastLine == rendered.text[Len(rendered.text)]

\* C15: with axes enabled, the last line of the rendered text (the time axis)
\* shows a dot at text column candle.column + 6 for every stored candle, and
\* rendering leaves the grid, its extent and the stored candles as they were.
TimeAxisDots ==
    (rendered.made /\ showAxes) =>
        /\ \A i \in Indices :
              /\ candles[i].column + 6 + 1 <= Len(lastLine)
              /\ lastLine[candles[i].column + 6 + 1] = "."
        /\ this = rendered.session

====
